---- MODULE Spec2Model ----
(***************************************************************************)
(* A model of the event-driven team systems of super-auto-boiz: the FIFO   *)
(* event queue of System, the target dispatch and removal of TeamSystem,   *)
(* the transactions of ShopSystem and the turn driver of BattleSystem.     *)
(* Python's 0-based team numbers and positions are kept in the data        *)
(* (boi.team, boi.team_pos, winner); the sequences themselves are 1-based. *)
(* The constructors are modelled by the state they are written to set up:  *)
(* as the files stand TeamSystem.__init__ calls System.__init__ without    *)
(* event_callbacks and BattleSystem.__init__ calls TeamSystem.__init__     *)
(* without it, which Python refuses with TypeError.                        *)
(***************************************************************************)
EXTENDS Integers, Sequences, FiniteSets, TLC

VARIABLES
    mode,          \* "shop" (ShopSystem, one team), "battle" (BattleSystem, two teams)
                   \* or "trigger" (one call of Boi.trigger on its own)
    caller,        \* the event types the caller of the shop sends
    bois,          \* the Boi objects: id -> fields
    items,         \* the Item objects: id -> item name
    teams,         \* TeamSystem.teams: a sequence of sequences of boi ids
    money,         \* ShopSystem.money
    shop_bois,     \* ShopSystem.shop_bois (the offered bois)
    shop_items,    \* ShopSystem.shop_items (the offered items)
    frozen_bois,   \* ShopSystem.frozen_bois
    frozen_items,  \* ShopSystem.frozen_items
    event_queue,   \* System.event_queue
    pc,            \* position of the running public operation ("idle": none is running)
    draining,      \* the battle driver is inside process_event, the queue is being drained
    err,           \* the exception the last public operation raised ("none": it returned)
    notified,      \* the event most recently handed to the observer callbacks
    battle_over,   \* BattleSystem.battle_over
    winner,        \* BattleSystem.winner (None, 0 or 1)
    iter,          \* the snapshot list a for-loop of the battle driver still has to visit
    to_remove,     \* _process_deaths: to_remove
    any_deaths,    \* _process_deaths: any_deaths
    other_boi,     \* run_turn: other_boi of the attacker at the head of iter
    roster,        \* the teams that were passed to the constructor
    invoked        \* Boi.trigger: the callbacks called so far, in the order of the calls

vars == <<mode, caller, bois, items, teams, money, shop_bois, shop_items, frozen_bois,
          frozen_items, event_queue, pc, draining, err, notified, battle_over, winner,
          iter, to_remove, any_deaths, other_boi, roster, invoked>>

shopVars == <<money, shop_bois, shop_items, frozen_bois, frozen_items>>
battleVars == <<draining, battle_over, winner, iter, to_remove, any_deaths, other_boi>>

----------------------------------------------------------------------------
(* Program constants *)
MAX_TEAM_SIZE == 5
MAX_BOI_LEVEL == 3
LEVEL_UP_EXPERIENCE == 3
MAX_HEALTH == 50
MAX_ATTACK == 50
ROLL_PRICE == 1
BOI_PRICE == 3

(* Bounds of the model *)
NumBois == 8        \* Boi objects alive at the same time
NumItems == 3       \* Item objects alive at the same time
MaxQueue == 2       \* events a caller sends before it drains the queue
MaxExperience == 4  \* experience a Boi is left with (it grows without limit above MAX_BOI_LEVEL)
MaxTiers == 2       \* tiers of the packs a ShopSystem is constructed with

\* Python's None, and the value of a payload key the event does not have.
None == 0
NoKey == 0 - 1
\* boi.team / boi.team_pos of a Boi on which the attribute was never set.
Unset == 0 - 1
\* Python's None where a team number is expected (0 is a team number).
NoTeam == 0 - 1

BoiIds == 1..NumBois
ItemIds == 1..NumItems

\* isinstance(x, Boi), isinstance(x, Item)
IsBoi(x) == x \in BoiIds
IsItem(x) == x \in ItemIds

----------------------------------------------------------------------------
(* Sequences as Python lists *)

Contains(s, x) == \E i \in DOMAIN s : s[i] = x

\* list.index(x): the first index of x (1-based here)
IndexOf(s, x) == CHOOSE i \in DOMAIN s : s[i] = x /\ \A j \in 1..(i - 1) : s[j] # x

\* list.remove(x): drops the first occurrence of x
ListRemove(s, x) ==
    IF ~Contains(s, x) THEN s
    ELSE LET i == IndexOf(s, x)
         IN SubSeq(s, 1, i - 1) \o SubSeq(s, i + 1, Len(s))

Range(s) == {s[i] : i \in DOMAIN s}

Min2(a, b) == IF a <= b THEN a ELSE b
\* the first argument whatever the second is
First2(a, b) == a
Max2(a, b) == IF a >= b THEN a ELSE b

RECURSIVE Flatten(_)
Flatten(ss) == IF ss = <<>> THEN <<>> ELSE Head(ss) \o Flatten(Tail(ss))

----------------------------------------------------------------------------
(* Events *)

\* Event(type, **data): every payload key this model uses, NoKey when absent.
Event(type) ==
    [type |-> type, target |-> NoKey, source |-> NoKey, item |-> NoKey,
     damage |-> 0, boi |-> NoKey, boi2 |-> NoKey, target_pos |-> <<>>]

NoEvent == Event("")

\* Payload keys by event type:
\*   buy_boi, sell_boi, toggle_freeze_boi   boi
\*   buy_item                               item, boi (key target_boi)
\*   merge_boi                              boi (key target_boi), boi2 (key source_boi)
\*   buy_and_merge_boi                      boi (key bought), target
\*   swap_boi                               boi (key boi1), boi2
\*   toggle_freeze_item                     item
\*   damage                                 target, source, damage
\*   death, killed                          target, source
\*   levelup, purchased, sold               target
\*   item_used                              target, item
\*   battle driver events                   target_pos = <<team, team_pos>> (key target_boi)
SendTarget(type, b) == [Event(type) EXCEPT !.target = b]
SendTargetSource(type, b, src) == [Event(type) EXCEPT !.target = b, !.source = src]

----------------------------------------------------------------------------
(* Content: the builders and items the demos and tests register *)

\* Boi.__init__ and BoiBuilder: a fresh Boi of a builder. ability names the
\* callback a builder adds on top of the three standard ones, and on the event
\* type it is registered for (add_trigger(on, ability)).
Boi(type_name, attack, health, ability) ==
    [type_name |-> type_name, attack |-> attack, health |-> health, level |-> 1,
     experience |-> 0, effect |-> "none", ability |-> ability, on |-> "",
     team |-> Unset, team_pos |-> Unset]

\* The record of an id no list, queue or local refers to.
Blank == Boi("", 0, 0, "none")

\* shop_system_test.py setUp / shop_demo.py create_pack: builders without abilities
BuildBoi(name) ==
    CASE name = "Ant" -> Boi("Ant", 2, 1, "none")
      [] name = "Beaver" -> Boi("Beaver", 2, 2, "none")
      [] name = "Cricket" -> Boi("Cricket", 1, 2, "none")
      [] OTHER -> Blank

\* battle_demo.py cricket_faint_callback: the Boi a fainting Cricket summons
ZombieCricket == Boi("Zombie Cricket", 1, 1, "none")

\* shop_demo.py create_apple / create_pill: Item(name, price, effect_builder)
ItemPrice(name) == IF name = "Pill" THEN 1 ELSE 3

\* The pack: one record per tier (builders, item builders, the two quotas).
ShopNumBois == 1
ShopNumItems == 1
PackTiers ==
    << [boi_builders |-> <<"Ant", "Beaver">>, item_builders |-> <<"Apple", "Pill">>,
        shop_num_bois |-> ShopNumBois, shop_num_items |-> ShopNumItems] >>

----------------------------------------------------------------------------
(* The state the handlers work on, as one record *)

State ==
    [bois |-> bois, items |-> items, teams |-> teams, money |-> money,
     shop_bois |-> shop_bois, shop_items |-> shop_items,
     frozen_bois |-> frozen_bois, frozen_items |-> frozen_items,
     queue |-> event_queue, err |-> "none",
     held |-> Range(iter) \cup Range(to_remove) \cup ({other_boi} \cap BoiIds)]

Raise(S, e) == [S EXCEPT !.err = e]

\* Sequencing: the rest of a handler runs only if nothing was raised so far.
Then(S, F(_)) == IF S.err # "none" THEN S ELSE F(S)

\* send_event with the event put at the head of the queue
send_event_front(S, e) == [S EXCEPT !.queue = <<e>> \o @]

\* System.send_event / TeamSystem.send_event
send_event(S, e) == [S EXCEPT !.queue = Append(@, e)]

EventBois(e) == {e.target, e.source, e.boi, e.boi2} \cap BoiIds

LiveBoisHeld(S, held) ==
    Range(Flatten(S.teams)) \cup Range(S.shop_bois) \cup Range(S.frozen_bois)
      \cup UNION {EventBois(S.queue[i]) : i \in DOMAIN S.queue} \cup held

\* The Boi ids some list, queued event or driver local (held) refers to.
LiveBois(S) == LiveBoisHeld(S, S.held)

LiveItems(S) ==
    Range(S.shop_items) \cup Range(S.frozen_items)
      \cup ({S.queue[i].item : i \in DOMAIN S.queue} \cap ItemIds)

\* The n smallest ids of a set, in order: the identities of freshly built objects.
RECURSIVE Smallest(_, _)
Smallest(ids, n) ==
    IF n = 0 \/ ids = {} THEN <<>>
    ELSE LET m == CHOOSE x \in ids : \A y \in ids : x <= y
         IN <<m>> \o Smallest(ids \ {m}, n - 1)

\* Objects nothing refers to any more are forgotten (their ids can be built anew).
Forget(S, held) ==
    LET lb == LiveBoisHeld(S, held)
        li == LiveItems(S)
    IN [S EXCEPT !.bois = [b \in BoiIds |-> IF b \in lb THEN S.bois[b] ELSE Blank],
                 !.items = [i \in ItemIds |-> IF i \in li THEN S.items[i] ELSE ""]]

----------------------------------------------------------------------------
(* TeamSystem *)

\* TeamSystem.boi_team: the 0-based number of the first team holding b, or None
\* (NoTeam).
boi_team(S, b) ==
    IF \E t \in DOMAIN S.teams : Contains(S.teams[t], b)
    THEN (CHOOSE t \in DOMAIN S.teams :
            Contains(S.teams[t], b) /\ \A u \in 1..(t - 1) : ~Contains(S.teams[u], b)) - 1
    ELSE NoTeam

\* TeamSystem._remove_boi: removes b from the first team holding it, if any.
remove_boi(S, b) ==
    LET t == boi_team(S, b)
    IN IF t = NoTeam THEN S
       ELSE [S EXCEPT !.teams[t + 1] = ListRemove(@, b)]

\* replace_boi writing with_boi at boi's index into every team that has the index
replace_boi_everywhere(S, b, with_boi) ==
    LET t == boi_team(S, b)
    IN IF t = NoTeam THEN Raise(S, "ValueError")
       ELSE LET i == IndexOf(S.teams[t + 1], b)
            IN [S EXCEPT !.teams = [u \in DOMAIN S.teams |->
                                      IF i <= Len(S.teams[u])
                                      THEN [S.teams[u] EXCEPT ![i] = with_boi]
                                      ELSE S.teams[u]]]

\* replace_boi dropping boi and putting with_boi at the back of boi's team
replace_boi_back(S, b, with_boi) ==
    LET t == boi_team(S, b)
    IN IF t = NoTeam THEN Raise(S, "ValueError")
       ELSE [S EXCEPT !.teams[t + 1] = Append(ListRemove(@, b), with_boi)]

\* TeamSystem.replace_boi: with_boi takes boi's place; ValueError if boi is on no team.
replace_boi(S, b, with_boi) ==
    LET t == boi_team(S, b)
    IN IF t = NoTeam THEN Raise(S, "ValueError")
       ELSE [S EXCEPT !.teams[t + 1][IndexOf(S.teams[t + 1], b)] = with_boi]

\* TeamSystem.other_team: the bois of the other team (empty unless there are two
\* teams); its assertion fails for a Boi that is on neither of two teams
valid_other_team(S, b) == Len(S.teams) # 2 \/ boi_team(S, b) # NoTeam
other_team(S, b) ==
    IF Len(S.teams) # 2 THEN <<>> ELSE S.teams[2 - boi_team(S, b)]

----------------------------------------------------------------------------
(* Boi and Effect triggers *)

\* boi.py standard_damage_callback. The death and killed events read
\* event.data["source"]: a damage event without that key raises KeyError.
standard_damage_callback(S, b, e) ==
    LET S1 == [S EXCEPT !.bois[b].health = @ - e.damage]
    IN IF S1.bois[b].health <= 0
       THEN IF e.source = NoKey THEN Raise(S1, "KeyError")
            ELSE send_event(send_event(S1, SendTargetSource("death", b, e.source)),
                            SendTargetSource("killed", e.source, b))
       ELSE S1

\* boi.py standard_levelup_callback
standard_levelup_callback(S, b, e) ==
    [S EXCEPT !.bois[b].level = @ + 1, !.bois[b].experience = 0]

\* The Effect an item's effect_builder builds ("none": MockEffectBuilder builds None)
ItemEffect(name) ==
    CASE name = "Apple" -> "Apple Effect"
      [] name = "Pill" -> "Pill Effect"
      [] OTHER -> "none"

\* an item_used callback that attaches nothing
standard_item_callback_idle(S, b, e) == S

\* boi.py standard_item_callback
standard_item_callback(S, b, e) ==
    [S EXCEPT !.bois[b].effect = ItemEffect(S.items[e.item])]

\* battle_demo.py ant_faint_callback: +2/+1 for the first Boi of the fainting Boi's team
ant_faint_callback(S, b, e) ==
    LET t == boi_team(S, b)
    IN IF t # NoTeam /\ Len(S.teams[t + 1]) > 0
       THEN LET f == S.teams[t + 1][1]
            IN [S EXCEPT !.bois[f].attack = @ + 2, !.bois[f].health = @ + 1]
       ELSE S

\* battle_demo.py cricket_faint_callback: a freshly built Zombie Cricket replaces b
cricket_faint_callback(S, b, e) ==
    LET t == boi_team(S, b)
        fresh == Smallest(BoiIds \ LiveBois(S), 1)
    IN IF t # NoTeam
       THEN IF fresh = <<>> THEN Raise(S, "bound")
            ELSE
            replace_boi([S EXCEPT !.bois[fresh[1]] = ZombieCricket,
                                  !.held = @ \cup {fresh[1]}], b, fresh[1])
       ELSE S

\* battle_demo.py mosquito_start_battle_callback: 1 damage to the first enemy
mosquito_start_battle_callback(S, b, e) ==
    IF ~valid_other_team(S, b) THEN Raise(S, "AssertionError")
    ELSE LET enemy == other_team(S, b)
         IN IF Len(enemy) > 0
            THEN send_event(S, [Event("damage") EXCEPT !.target = enemy[1], !.source = b,
                                                       !.damage = 1])
            ELSE S

\* The callback a builder added with add_trigger(on, ability)
AbilityCallback(S, b, e) ==
    CASE S.bois[b].ability = "ant_faint" -> ant_faint_callback(S, b, e)
      [] S.bois[b].ability = "cricket_faint" -> cricket_faint_callback(S, b, e)
      [] S.bois[b].ability = "mosquito" -> mosquito_start_battle_callback(S, b, e)
      [] OTHER -> S

\* The callbacks a Boi holds for an event type, in registration order: the
\* standard ones of BoiBuilder.__init__, then its builder's ability.
BoiCallbacks(S, b, e) ==
    LET S1 == CASE e.type = "damage" -> standard_damage_callback(S, b, e)
                [] e.type = "levelup" -> standard_levelup_callback(S, b, e)
                [] e.type = "item_used" -> standard_item_callback(S, b, e)
                [] OTHER -> S
    IN IF S1.err = "none" /\ e.type = S1.bois[b].on THEN AbilityCallback(S1, b, e) ELSE S1

\* Effect.trigger with the effects of shop_demo.py: both act on item_used only.
\* Apple: +1/+1 for event.data["target"]; Pill: a death event for it, source None.
EffectTrigger(S, name, e) ==
    CASE e.type = "item_used" /\ name = "Apple Effect" ->
            [S EXCEPT !.bois[e.target].attack = @ + 1, !.bois[e.target].health = @ + 1]
      [] e.type = "item_used" /\ name = "Pill Effect" ->
            send_event(S, SendTargetSource("death", e.target, None))
      [] OTHER -> S

\* Boi.trigger: the Boi's own callbacks, then the attached effect's
BoiTrigger(S, b, e) ==
    LET S1 == BoiCallbacks(S, b, e)
    IN IF S1.err = "none" /\ S1.bois[b].effect # "none"
       THEN EffectTrigger(S1, S1.bois[b].effect, e)
       ELSE S1

\* TeamSystem._handle_target_boi
handle_target_boi(S, e) ==
    IF ~IsBoi(e.target) THEN Raise(S, "AssertionError") ELSE BoiTrigger(S, e.target, e)

\* TeamSystem._handle_death
handle_death(S, e) == remove_boi(S, e.target)

\* TeamSystem._process_queue_event, after the observers were notified
TeamProcessQueueEvent(S, e) ==
    LET S1 == IF e.target # NoKey THEN handle_target_boi(S, e) ELSE S
    IN IF S1.err = "none" /\ e.type = "death" THEN handle_death(S1, e) ELSE S1

----------------------------------------------------------------------------
(* ShopSystem *)

\* ShopSystem.get_team
get_team(S) == S.teams[1]

\* ShopSystem.tier: the shop is opened at the pack's highest tier
tier == Len(PackTiers)

\* The builders and item builders unlocked at the shop's tier (tiers 1..tier)
UnlockedBois == Flatten([t \in 1..tier |-> PackTiers[t].boi_builders])
UnlockedItems == Flatten([t \in 1..tier |-> PackTiers[t].item_builders])

\* How many bois and items one free roll builds
RollNumBois == Min2(PackTiers[tier].shop_num_bois, Len(UnlockedBois))
RollNumItems == Min2(PackTiers[tier].shop_num_items, Len(UnlockedItems))

\* The outcomes of random.choice over one free roll: the names chosen for the new
\* bois and for the new items
RollChoices ==
    [bois : [1..RollNumBois -> Range(UnlockedBois)],
     items : [1..RollNumItems -> Range(UnlockedItems)]]

\* _free_roll that builds all its offers anew
free_roll_anew(S, rnd) ==
    LET nb == Smallest(BoiIds \ LiveBois(S), RollNumBois)
        ni == Smallest(ItemIds \ LiveItems(S), RollNumItems)
    IN IF Len(nb) < RollNumBois \/ Len(ni) < RollNumItems THEN Raise(S, "bound")
       ELSE [S EXCEPT
               !.shop_bois = nb,
               !.shop_items = ni,
               !.bois = [b \in BoiIds |->
                           IF \E k \in DOMAIN nb : nb[k] = b
                           THEN BuildBoi(rnd.bois[IndexOf(nb, b)]) ELSE S.bois[b]],
               !.items = [i \in ItemIds |->
                           IF \E k \in DOMAIN ni : ni[k] = i
                           THEN rnd.items[IndexOf(ni, i)] ELSE S.items[i]]]

\* ShopSystem._free_roll: the offers become the frozen lists followed by
\* newly built bois and items, rnd being what random.choice returned. What is
\* built is a new object, none of those the shop holds when the roll begins.
free_roll(S, rnd) ==
    LET nb == Smallest(BoiIds \ LiveBois(S), RollNumBois)
        ni == Smallest(ItemIds \ LiveItems(S), RollNumItems)
    IN IF Len(nb) < RollNumBois \/ Len(ni) < RollNumItems THEN Raise(S, "bound")
       ELSE [S EXCEPT
               !.shop_bois = S.frozen_bois \o nb,
               !.shop_items = S.frozen_items \o ni,
               !.bois = [b \in BoiIds |->
                           IF \E k \in DOMAIN nb : nb[k] = b
                           THEN BuildBoi(rnd.bois[IndexOf(nb, b)]) ELSE S.bois[b]],
               !.items = [i \in ItemIds |->
                           IF \E k \in DOMAIN ni : ni[k] = i
                           THEN rnd.items[IndexOf(ni, i)] ELSE S.items[i]]]

\* ShopSystem.valid_roll
valid_roll(S) == S.money >= ROLL_PRICE

\* _roll without taking its price
roll_unpaid(S, rnd) ==
    IF ~valid_roll(S) THEN Raise(S, "ValueError") ELSE free_roll(S, rnd)

\* ShopSystem._roll
roll(S, rnd) ==
    IF ~valid_roll(S) THEN Raise(S, "ValueError")
    ELSE free_roll([S EXCEPT !.money = @ - ROLL_PRICE], rnd)

\* ShopSystem.valid_buy_item (an argument that is no Item or no Boi raises ValueError,
\* which is also what a caller does on False)
valid_buy_item(S, item, target_boi) ==
    /\ IsItem(item) /\ IsBoi(target_boi)
    /\ Contains(S.shop_items, item)
    /\ S.money >= ItemPrice(S.items[item])
    /\ Contains(get_team(S), target_boi)

\* ShopSystem._buy_item
buy_item(S, e) ==
    IF ~valid_buy_item(S, e.item, e.boi) THEN Raise(S, "ValueError")
    ELSE send_event([S EXCEPT !.money = @ - ItemPrice(S.items[e.item]),
                              !.shop_items = ListRemove(@, e.item)],
                    [Event("item_used") EXCEPT !.target = e.boi, !.item = e.item])

\* valid_buy_boi without its check of the money
valid_buy_boi_unpaid(S, boi) ==
    /\ IsBoi(boi)
    /\ Contains(S.shop_bois, boi)
    /\ Len(get_team(S)) < MAX_TEAM_SIZE

\* ShopSystem.valid_buy_boi
valid_buy_boi(S, boi) ==
    /\ IsBoi(boi)
    /\ Contains(S.shop_bois, boi)
    /\ S.money >= BOI_PRICE
    /\ Len(get_team(S)) < MAX_TEAM_SIZE

\* _buy_boi putting the boi at the front of the team
buy_boi_front(S, e) ==
    IF ~valid_buy_boi(S, e.boi) THEN Raise(S, "ValueError")
    ELSE send_event([S EXCEPT !.money = @ - BOI_PRICE,
                              !.teams[1] = <<e.boi>> \o @,
                              !.shop_bois = ListRemove(@, e.boi)],
                    SendTarget("purchased", e.boi))

\* _buy_boi taking the price before it validates
buy_boi_eager(S, e) ==
    LET S1 == [S EXCEPT !.money = @ - BOI_PRICE]
    IN IF ~valid_buy_boi(S, e.boi) THEN Raise(S1, "ValueError")
       ELSE send_event([S1 EXCEPT !.teams[1] = Append(@, e.boi),
                                  !.shop_bois = ListRemove(@, e.boi)],
                       SendTarget("purchased", e.boi))

\* ShopSystem._buy_boi
buy_boi(S, e) ==
    IF ~valid_buy_boi(S, e.boi) THEN Raise(S, "ValueError")
    ELSE send_event([S EXCEPT !.money = @ - BOI_PRICE,
                              !.teams[1] = Append(@, e.boi),
                              !.shop_bois = ListRemove(@, e.boi)],
                    SendTarget("purchased", e.boi))

\* ShopSystem.valid_sell_boi
valid_sell_boi(S, boi) == IsBoi(boi) /\ Contains(get_team(S), boi)

\* _sell_boi paying 1 whatever the level
sell_boi_flat(S, e) ==
    IF ~valid_sell_boi(S, e.boi) THEN Raise(S, "ValueError")
    ELSE send_event([S EXCEPT !.money = @ + 1,
                              !.teams[1] = ListRemove(@, e.boi)],
                    SendTarget("sold", e.boi))

\* ShopSystem._sell_boi
sell_boi(S, e) ==
    IF ~valid_sell_boi(S, e.boi) THEN Raise(S, "ValueError")
    ELSE send_event([S EXCEPT !.money = @ + S.bois[e.boi].level,
                              !.teams[1] = ListRemove(@, e.boi)],
                    SendTarget("sold", e.boi))

\* ShopSystem.valid_merge_boi
valid_merge_boi(S, target_boi, source_boi) ==
    /\ IsBoi(target_boi) /\ IsBoi(source_boi)
    /\ Contains(get_team(S), target_boi)
    /\ Contains(get_team(S), source_boi)
    /\ S.bois[target_boi].type_name = S.bois[source_boi].type_name

\* The level-up loop of _merge_boi: while experience >= LEVEL_UP_EXPERIENCE and
\* level < MAX_BOI_LEVEL, take the threshold off, raise the level, send levelup.
RECURSIVE LevelUps(_, _)
LevelUps(S, t) ==
    IF S.bois[t].experience >= LEVEL_UP_EXPERIENCE /\ S.bois[t].level < MAX_BOI_LEVEL
    THEN LevelUps(send_event([S EXCEPT !.bois[t].experience = @ - LEVEL_UP_EXPERIENCE,
                                       !.bois[t].level = @ + 1],
                             SendTarget("levelup", t)), t)
    ELSE S

\* ShopSystem._merge_boi with target_boi = t, source_boi = s
merge_boi(S, t, s) ==
    IF ~valid_merge_boi(S, t, s) THEN Raise(S, "ValueError")
    ELSE
      LET src == S.bois[s]
          tgt == S.bois[t]
          S1 == [S EXCEPT !.bois[t].experience =
                              @ + src.experience + (src.level - 1) * LEVEL_UP_EXPERIENCE + 1]
          \* the maxima are taken after the experience was added (t may be s)
          max_health == Max2(S1.bois[t].health, S1.bois[s].health)
          max_attack == Max2(S1.bois[t].attack, S1.bois[s].attack)
          S2 == [S1 EXCEPT !.bois[t].attack = Min2(MAX_ATTACK, max_attack + 1),
                           !.bois[t].health = Min2(MAX_HEALTH, max_health + 1)]
          S3 == LevelUps(S2, t)
          S4 == IF S3.bois[t].level = MAX_BOI_LEVEL
                THEN [S3 EXCEPT !.bois[t].experience = 0] ELSE S3
      IN IF S4.bois[t].level > MAX_BOI_LEVEL THEN Raise(S4, "AssertionError")
         ELSE [S4 EXCEPT !.teams[1] = ListRemove(@, s)]

\* ShopSystem.valid_buy_and_merge_boi
valid_buy_and_merge_boi(S, bought, target) ==
    /\ IsBoi(bought) /\ IsBoi(target)
    /\ Contains(S.shop_bois, bought)
    /\ Contains(get_team(S), target)
    /\ S.bois[bought].type_name = S.bois[target].type_name
    /\ S.money >= BOI_PRICE

\* ShopSystem._buy_and_merge_boi
buy_and_merge_boi(S, e) ==
    IF ~valid_buy_and_merge_boi(S, e.boi, e.target) THEN Raise(S, "ValueError")
    ELSE merge_boi([S EXCEPT !.money = @ - BOI_PRICE,
                             !.shop_bois = ListRemove(@, e.boi),
                             !.teams[1] = Append(@, e.boi)],
                   e.target, e.boi)

\* ShopSystem.valid_swap_boi
valid_swap_boi(S, boi1, boi2) ==
    /\ IsBoi(boi1) /\ IsBoi(boi2)
    /\ Contains(get_team(S), boi1)
    /\ Contains(get_team(S), boi2)
    /\ boi1 # boi2

\* _swap_boi writing only the first of the two positions
swap_boi_half(S, e) ==
    IF ~valid_swap_boi(S, e.boi, e.boi2) THEN Raise(S, "ValueError")
    ELSE LET idx1 == IndexOf(get_team(S), e.boi)
         IN [S EXCEPT !.teams[1] = [@ EXCEPT ![idx1] = e.boi2]]

\* ShopSystem._swap_boi
swap_boi(S, e) ==
    IF ~valid_swap_boi(S, e.boi, e.boi2) THEN Raise(S, "ValueError")
    ELSE LET idx1 == IndexOf(get_team(S), e.boi)
             idx2 == IndexOf(get_team(S), e.boi2)
         IN [S EXCEPT !.teams[1] = [@ EXCEPT ![idx1] = e.boi2, ![idx2] = e.boi]]

\* ShopSystem.valid_toggle_freeze_item
valid_toggle_freeze_item(S, item) ==
    IsItem(item) /\ (Contains(S.shop_items, item) \/ Contains(S.frozen_items, item))

\* ShopSystem._toggle_freeze_item
toggle_freeze_item(S, e) ==
    IF ~valid_toggle_freeze_item(S, e.item) THEN Raise(S, "ValueError")
    ELSE IF Contains(S.frozen_items, e.item)
         THEN [S EXCEPT !.frozen_items = ListRemove(@, e.item)]
         ELSE [S EXCEPT !.frozen_items = Append(@, e.item)]

\* ShopSystem.valid_toggle_freeze_boi
valid_toggle_freeze_boi(S, boi) ==
    IsBoi(boi) /\ (Contains(S.shop_bois, boi) \/ Contains(S.frozen_bois, boi))

\* _toggle_freeze_boi that only ever freezes
toggle_freeze_boi_add(S, e) ==
    IF ~valid_toggle_freeze_boi(S, e.boi) THEN Raise(S, "ValueError")
    ELSE [S EXCEPT !.frozen_bois = Append(@, e.boi)]

\* ShopSystem._toggle_freeze_boi
toggle_freeze_boi(S, e) ==
    IF ~valid_toggle_freeze_boi(S, e.boi) THEN Raise(S, "ValueError")
    ELSE IF Contains(S.frozen_bois, e.boi)
         THEN [S EXCEPT !.frozen_bois = ListRemove(@, e.boi)]
         ELSE [S EXCEPT !.frozen_bois = Append(@, e.boi)]

\* The match statement of ShopSystem._process_queue_event
ShopTransaction(S, e, rnd) ==
    CASE e.type = "buy_item" -> buy_item(S, e)
      [] e.type = "buy_boi" -> buy_boi(S, e)
      [] e.type = "sell_boi" -> sell_boi(S, e)
      [] e.type = "merge_boi" -> merge_boi(S, e.boi, e.boi2)
      [] e.type = "buy_and_merge_boi" -> buy_and_merge_boi(S, e)
      [] e.type = "swap_boi" -> swap_boi(S, e)
      [] e.type = "roll" -> roll(S, rnd)
      [] e.type = "toggle_freeze_item" -> toggle_freeze_item(S, e)
      [] e.type = "toggle_freeze_boi" -> toggle_freeze_boi(S, e)
      [] OTHER -> S

\* ShopSystem._process_queue_event: the TeamSystem handling, then the transaction
ShopProcessQueueEvent(S, e, rnd) ==
    Then(TeamProcessQueueEvent(S, e), LAMBDA T : ShopTransaction(T, e, rnd))

----------------------------------------------------------------------------
(* The shop as a state machine *)

\* The teams a shop is opened on: none, bois about to level up (one of them
\* grown to the stat cap by earlier merges) next to fresh ones, a full team.
Leveled(b, level, experience) == [b EXCEPT !.level = level, !.experience = experience]
Grown(b, attack, health) == [b EXCEPT !.attack = attack, !.health = health]

RosterPair ==
    <<Leveled(BuildBoi("Ant"), 1, 2),
      Grown(Leveled(BuildBoi("Ant"), 2, 2), MAX_ATTACK, MAX_HEALTH - 1),
      BuildBoi("Beaver"), BuildBoi("Beaver")>>
RosterFull ==
    <<Leveled(BuildBoi("Ant"), 2, 2), BuildBoi("Beaver"), BuildBoi("Beaver"),
      BuildBoi("Beaver"), BuildBoi("Ant")>>

\* The shops that are opened: the team and the money passed to the constructor,
\* and the transactions their caller goes on to use
SetupMarket ==
    [team |-> <<>>, money |-> 7,
     ops |-> {"buy_boi", "toggle_freeze_boi", "roll", "sell_boi", "buy_and_merge_boi"}]
SetupFreeze ==
    [team |-> <<>>, money |-> 2, ops |-> {"toggle_freeze_boi", "toggle_freeze_item", "roll"}]
SetupItems ==
    [team |-> <<Grown(BuildBoi("Ant"), MAX_ATTACK, MAX_HEALTH - 1),
                Leveled(BuildBoi("Beaver"), 2, 0)>>,
     money |-> 3,
     ops |-> {"buy_item", "sell_boi"}]
SetupMerge ==
    [team |-> RosterPair, money |-> 0, ops |-> {"merge_boi", "swap_boi"}]
SetupFull ==
    [team |-> RosterFull, money |-> 7, ops |-> {"buy_boi", "buy_and_merge_boi", "roll"}]
ShopSetups == {SetupMarket, SetupFreeze, SetupItems, SetupMerge, SetupFull}

\* The state of a ShopSystem whose constructor has run on roster r with money m,
\* before its initial free roll
ShopConstructed(r, m) ==
    [bois |-> [b \in BoiIds |-> IF b <= Len(r) THEN r[b] ELSE Blank],
     items |-> [i \in ItemIds |-> ""],
     teams |-> << [k \in 1..Len(r) |-> k] >>,
     money |-> m, shop_bois |-> <<>>, shop_items |-> <<>>,
     frozen_bois |-> <<>>, frozen_items |-> <<>>,
     queue |-> <<>>, err |-> "none", held |-> {}]

\* Writes a handler's result to the variables of TeamSystem and ShopSystem
Commit(S, held) ==
    LET F == Forget(S, held)
    IN /\ bois' = F.bois
       /\ items' = F.items
       /\ teams' = F.teams
       /\ money' = F.money
       /\ shop_bois' = F.shop_bois
       /\ shop_items' = F.shop_items
       /\ frozen_bois' = F.frozen_bois
       /\ frozen_items' = F.frozen_items
       /\ event_queue' = F.queue
       /\ err' = F.err

ShopInit ==
    \E su \in ShopSetups, rnd \in RollChoices :
        LET S == free_roll(ShopConstructed(su.team, su.money), rnd)
        IN /\ mode = "shop" /\ caller = su.ops /\ roster = <<su.team>>
           /\ bois = S.bois /\ items = S.items /\ teams = S.teams /\ money = S.money
           /\ shop_bois = S.shop_bois /\ shop_items = S.shop_items
           /\ frozen_bois = S.frozen_bois /\ frozen_items = S.frozen_items
           /\ event_queue = <<>> /\ pc = "idle" /\ draining = FALSE
           /\ err = "none" /\ notified = NoEvent
           /\ battle_over = FALSE /\ winner = NoTeam
           /\ iter = <<>> /\ to_remove = <<>> /\ any_deaths = FALSE /\ other_boi = None
           /\ invoked = <<>>

\* The arguments a caller picks: the first two and the last member of the team,
\* the first and the last offered boi; the first offered and the first frozen
\* boi or item for a freeze toggle; None for an argument that is no Boi or Item
Picks(l, idx) == {l[i] : i \in idx \cap DOMAIN l}
TeamPicks == Picks(teams[1], {1, 2, Len(teams[1])})
FirstMember == Picks(teams[1], {1})
OfferPicks == Picks(shop_bois, {1, Len(shop_bois)})
FreezePicks == Picks(shop_bois, {1}) \cup Picks(frozen_bois, {1})
ItemPicks == Picks(shop_items, {1, Len(shop_items)})
ItemFreezePicks == Picks(shop_items, {1}) \cup Picks(frozen_items, {1})

\* The transaction events a caller sends to a shop: every transaction with
\* arguments that pass its validation and arguments that fail each of its checks
AllShopEvents ==
    {Event("roll")}
    \cup {[Event("buy_boi") EXCEPT !.boi = b] : b \in OfferPicks \cup FirstMember \cup {None}}
    \cup {[Event("sell_boi") EXCEPT !.boi = b] : b \in TeamPicks \cup Picks(shop_bois, {1})}
    \cup {[Event("toggle_freeze_boi") EXCEPT !.boi = b] : b \in FreezePicks \cup FirstMember}
    \cup {[Event(t) EXCEPT !.boi = b, !.boi2 = c] :
            t \in {"merge_boi", "swap_boi"},
            b \in TeamPicks, c \in TeamPicks \cup Picks(shop_bois, {1})}
    \cup {[Event("buy_and_merge_boi") EXCEPT !.boi = b, !.target = c] :
            b \in OfferPicks \cup FirstMember, c \in TeamPicks \cup Picks(shop_bois, {1})}
    \cup {[Event("buy_item") EXCEPT !.item = i, !.boi = b] :
            i \in ItemPicks \cup {None}, b \in FirstMember \cup Picks(shop_bois, {1})}
    \cup {[Event("toggle_freeze_item") EXCEPT !.item = i] : i \in ItemFreezePicks \cup {None}}

ShopEvents == {e \in AllShopEvents : e.type \in caller}

\* The events a caller queues behind an event that is still pending
BatchEvents ==
    {e \in ShopEvents : e.type \in {"sell_boi", "buy_item"} /\ Contains(teams[1], e.boi)}

\* shop.send_event(e), called from outside on an idle shop
ShopSendEvent ==
    /\ mode = "shop" /\ pc = "idle"
    /\ \E e \in ShopEvents :
         /\ \/ event_queue = <<>>
            \/ Len(event_queue) < MaxQueue /\ e \in BatchEvents
         /\ Commit(send_event(State, e), {})
    /\ notified' = NoEvent
    /\ UNCHANGED <<mode, caller, roster, pc, battleVars, invoked>>

\* A turn of the loop that tells the observers only of an event it has handled
ShopProcessHeadLate ==
    /\ event_queue # <<>>
    /\ \E rnd \in IF Head(event_queue).type = "roll" THEN RollChoices
                   ELSE {CHOOSE r \in RollChoices : TRUE} :
         LET e == Head(event_queue)
             S == ShopProcessQueueEvent([State EXCEPT !.queue = Tail(@)], e, rnd)
         IN /\ S.err # "bound"
            /\ \A b \in BoiIds : S.bois[b].experience <= MaxExperience
            /\ Commit(S, {})
            /\ notified' = IF S.err = "none" THEN e ELSE notified
            /\ pc' = IF S.err = "none" /\ S.queue # <<>> THEN "drain" ELSE "returned"
    /\ UNCHANGED <<mode, caller, roster, battleVars, invoked>>

\* One turn of the loop of System._process_all_queue_events on a shop: the head
\* is popped, the observers are notified of it, and it is processed. An
\* exception leaves the loop (and the call); otherwise the loop goes on while
\* the queue holds events.
ShopProcessHead ==
    /\ event_queue # <<>>
    /\ \E rnd \in IF Head(event_queue).type = "roll" THEN RollChoices
                   ELSE {CHOOSE r \in RollChoices : TRUE} :
         LET e == Head(event_queue)
             S == ShopProcessQueueEvent([State EXCEPT !.queue = Tail(@)], e, rnd)
         IN /\ S.err # "bound"
            /\ \A b \in BoiIds : S.bois[b].experience <= MaxExperience
            /\ Commit(S, {})
            /\ notified' = e
            /\ pc' = IF S.err = "none" /\ S.queue # <<>> THEN "drain" ELSE "returned"
    /\ UNCHANGED <<mode, caller, roster, battleVars, invoked>>

\* shop._process_all_queue_events(), called from outside on an idle shop
ShopProcessAllQueueEvents ==
    /\ mode = "shop" /\ pc = "idle"
    /\ ShopProcessHead

\* the next turn of the running loop
ShopProcessNext ==
    /\ mode = "shop" /\ pc = "drain"
    /\ ShopProcessHead

\* The call has returned or raised (err); its caller goes on.
Return ==
    /\ pc = "returned"
    /\ pc' = "idle" /\ err' = "none" /\ notified' = NoEvent
    /\ UNCHANGED <<mode, caller, roster, bois, items, teams, shopVars, event_queue, battleVars, invoked>>

----------------------------------------------------------------------------
(* BattleSystem *)

\* Boi._sort_tuple / Boi.__lt__: x sorts before y when its tuple
\* (attack, health, uuid) is the greater one
BoiLess(S, x, y) ==
    \/ S.bois[x].attack > S.bois[y].attack
    \/ /\ S.bois[x].attack = S.bois[y].attack
       /\ \/ S.bois[x].health > S.bois[y].health
          \/ S.bois[x].health = S.bois[y].health /\ x > y

\* BattleSystem._all_bois_in_order
all_bois_in_order(S) ==
    SortSeq(S.teams[1] \o S.teams[2], LAMBDA x, y : BoiLess(S, x, y))

\* is_dead with a strict comparison
is_dead_strict(S, b) == S.bois[b].health < 0

\* Boi.is_dead, which _is_dead asks
is_dead(S, b) == S.bois[b].health <= 0

\* battle_system.other_team_number
other_team_number(team_number) == 1 - team_number

\* BattleSystem._first_boi: valid when the team has a Boi
valid_first_boi(S, team_id) == team_id \in {0, 1} /\ Len(S.teams[team_id + 1]) > 0
first_boi(S, team_id) == S.teams[team_id + 1][1]

\* Event(type=..., target_boi=(boi.team, boi.team_pos)), as the drivers build it
TargetEvent(type, team, team_pos, damage) ==
    [Event(type) EXCEPT !.target_pos = <<team, team_pos>>, !.damage = damage]

\* BattleSystem._process_team_system_events: the Boi at the named position
\* becomes the event's target and the event is sent; the queue is then drained.
process_team_system_events(S, e) ==
    LET t == e.target_pos[1]
        p == e.target_pos[2]
    IN IF t \notin {0, 1} \/ p < 0 \/ p >= Len(S.teams[t + 1]) THEN Raise(S, "IndexError")
       ELSE send_event(S, [e EXCEPT !.target = S.teams[t + 1][p + 1]])

\* The battle-over check that ends run_turn: <<battle_over, winner>>
battle_over_check(S, over, win) ==
    LET first == IF Len(S.teams[1]) = 0 /\ Len(S.teams[2]) = 0
                 THEN <<TRUE, NoTeam>> ELSE <<over, win>>
    IN IF Len(S.teams[1]) = 0 THEN <<TRUE, 1>>
       ELSE IF Len(S.teams[2]) = 0 THEN <<TRUE, 0>>
       ELSE first

\* BattleSystem.get_winner
get_winner == IF battle_over THEN winner ELSE NoTeam

\* the loop over to_remove left out
RemoveNone(S, l) == S

\* the for loop of _process_deaths over to_remove
RECURSIVE RemoveAll(_, _)
RemoveAll(S, l) == IF l = <<>> THEN S ELSE RemoveAll(remove_boi(S, Head(l)), Tail(l))

----------------------------------------------------------------------------
(* The battle as a state machine *)

\* builder.add_trigger(on, ability)
add_trigger(b, on, ability) == [b EXCEPT !.on = on, !.ability = ability]

\* The builders of the battles that are fought
DemoAnt == add_trigger(Boi("Ant", 2, 1, "none"), "death", "ant_faint")
DemoCricket == add_trigger(Boi("Cricket", 1, 2, "none"), "death", "cricket_faint")
DemoMosquito == add_trigger(Boi("Mosquito", 2, 2, "none"), "battle_start", "mosquito")
Gnat(health, on) == add_trigger(Boi("Gnat", 0, health, "none"), on, "mosquito")
Husk(attack) == Boi("Husk", attack, 0, "none")
FaintedCricket == add_trigger(Boi("Cricket", 1, 0, "none"), "death", "cricket_faint")

\* The pairs of teams passed to the constructor
BattleDuel == << <<DemoAnt>>, <<DemoCricket>> >>
BattleDraw == << <<Gnat(1, "battle_turn_end")>>, <<Gnat(1, "death")>> >>
BattleWin0 == << <<Gnat(2, "battle_turn_end")>>, <<Gnat(1, "")>> >>
BattleWin1 == << <<Gnat(1, "")>>, <<Gnat(2, "battle_turn_end")>> >>
BattlePeace == << <<Gnat(1, "")>>, <<Gnat(1, "")>> >>
BattleSummon == << <<FaintedCricket, DemoAnt>>, <<BuildBoi("Beaver")>> >>
BattleEmpty == << <<>>, <<DemoAnt>> >>
BattleSting == << <<DemoMosquito>>, <<DemoAnt, BuildBoi("Beaver")>> >>
BattleHusks == << <<Husk(3), Husk(2), BuildBoi("Beaver")>>, <<BuildBoi("Beaver")>> >>
BattleTrade == << <<BuildBoi("Ant")>>, <<BuildBoi("Cricket")>> >>
\* a fainted Boi whose death trigger hits the first enemy, which is visited
\* after it by the scan of _process_deaths
BattleChain ==
    << <<add_trigger(Husk(1), "death", "mosquito")>>, <<Gnat(1, ""), BuildBoi("Beaver")>> >>
BattleSetups == {BattleDuel, BattleDraw, BattleWin0, BattleWin1, BattlePeace, BattleSummon, BattleEmpty, BattleSting, BattleHusks,
     BattleTrade, BattleChain}

\* BattleSystem.__init__ up to the call of _start_battle: the teams are stored
\* and every Boi is given its team and position
BattleConstructed(r) ==
    LET n0 == Len(r[1])
        n1 == Len(r[2])
    IN [bois |-> [b \in BoiIds |->
                    IF b <= n0 THEN [r[1][b] EXCEPT !.team = 0, !.team_pos = b - 1]
                    ELSE IF b <= n0 + n1
                         THEN [r[2][b - n0] EXCEPT !.team = 1, !.team_pos = b - n0 - 1]
                         ELSE Blank],
        items |-> [i \in ItemIds |-> ""],
        teams |-> << [k \in 1..n0 |-> k], [k \in 1..n1 |-> n0 + k] >>,
        money |-> 0, shop_bois |-> <<>>, shop_items |-> <<>>,
        frozen_bois |-> <<>>, frozen_items |-> <<>>,
        queue |-> <<>>, err |-> "none", held |-> {}]

\* The constructor is about to run the loop of _start_battle
BattleInit ==
    \E r \in BattleSetups :
        LET S == BattleConstructed(r)
        IN /\ mode = "battle" /\ caller = {"run_turn"} /\ roster = r
           /\ bois = S.bois /\ items = S.items /\ teams = S.teams /\ money = S.money
           /\ shop_bois = <<>> /\ shop_items = <<>>
           /\ frozen_bois = <<>> /\ frozen_items = <<>>
           /\ event_queue = <<>> /\ pc = "start" /\ draining = FALSE
           /\ err = "none" /\ notified = NoEvent
           /\ battle_over = FALSE /\ winner = NoTeam
           /\ iter = all_bois_in_order(S) /\ to_remove = <<>>
           /\ any_deaths = FALSE /\ other_boi = None /\ invoked = <<>>

Held(it, tr, ob) == Range(it) \cup Range(tr) \cup ({ob} \cap BoiIds)

\* Go without the drain of the queue: the driver goes on at once
GoOn(S, p, it, tr, ad, ob) ==
    /\ S.err # "bound"
    /\ IF S.err # "none"
       THEN /\ Commit(S, {})
            /\ pc' = IF pc = "start" THEN "unbuilt" ELSE "returned"
            /\ iter' = <<>> /\ to_remove' = <<>> /\ any_deaths' = FALSE /\ other_boi' = None
       ELSE /\ Commit(S, Held(it, tr, ob))
            /\ pc' = p
            /\ iter' = it /\ to_remove' = tr /\ any_deaths' = ad /\ other_boi' = ob
    /\ draining' = FALSE
    /\ UNCHANGED <<mode, caller, roster, invoked>>

\* The driver goes on at p with its locals, or the exception S.err leaves the
\* running call (the constructor builds no BattleSystem then)
Go(S, p, it, tr, ad, ob) ==
    /\ S.err # "bound"
    /\ IF S.err # "none"
       THEN /\ Commit(S, {})
            /\ pc' = IF pc = "start" THEN "unbuilt" ELSE "returned"
            /\ draining' = FALSE
            /\ iter' = <<>> /\ to_remove' = <<>> /\ any_deaths' = FALSE /\ other_boi' = None
       ELSE /\ Commit(S, Held(it, tr, ob))
            /\ pc' = p /\ draining' = (S.queue # <<>>)
            /\ iter' = it /\ to_remove' = tr /\ any_deaths' = ad /\ other_boi' = ob
    /\ UNCHANGED <<mode, caller, roster, invoked>>

\* BattleSystem.process_event(e) called by a driver that goes on at p: the
\* observers are notified, the event is resolved and sent
Emit(e, p, it, tr, ad, ob) ==
    /\ notified' = e
    /\ Go(process_team_system_events(State, e), p, it, tr, ad, ob)

\* A driver raises before it emits anything
Fail(e) ==
    /\ notified' = notified
    /\ Go(Raise(State, e), pc, iter, to_remove, any_deaths, other_boi)

\* A driver moves on without emitting
Move(S, p, it, tr, ad, ob) ==
    /\ notified' = notified
    /\ Go(S, p, it, tr, ad, ob)

\* The body of the loops "for boi in self._all_bois_in_order(): process_event(...)"
EmitToHead(type) ==
    LET b == Head(iter)
    IN IF bois[b].team = Unset THEN Fail("AttributeError")
       ELSE Emit(TargetEvent(type, bois[b].team, bois[b].team_pos, 0),
                 pc, Tail(iter), to_remove, any_deaths, other_boi)

\* _process_deaths left out: the driver goes straight on to what follows it
EnterNoDeaths(p) ==
    Move(State, CASE p = "deaths1" -> "fronts"
                  [] p = "deaths2" -> "turn_end_begin"
                  [] OTHER -> "check",
         <<>>, <<>>, FALSE, None)

\* _process_deaths begins: the first pass takes its snapshot
EnterDeaths(p) == Move(State, p, all_bois_in_order(State), <<>>, FALSE, None)

\* One turn of the drain loop that process_event runs: System._process_all_queue_events
BattleProcessNext ==
    /\ mode = "battle" /\ draining
    /\ LET e == Head(event_queue)
           S == TeamProcessQueueEvent([State EXCEPT !.queue = Tail(@)], e)
       IN /\ notified' = e
          /\ Go(S, pc, iter, to_remove, any_deaths, other_boi)
    /\ UNCHANGED <<battle_over, winner>>

\* BattleSystem._start_battle, run by the constructor
BattleStart ==
    /\ mode = "battle" /\ pc = "start" /\ ~draining
    /\ IF iter = <<>> THEN Move(State, "returned", <<>>, <<>>, FALSE, None)
       ELSE EmitToHead("battle_start")
    /\ UNCHANGED <<battle_over, winner>>

\* run_turn without its check of battle_over
BattleRunTurnUnguarded ==
    /\ mode = "battle" /\ pc = "idle"
    /\ Move(State, "turn_start", all_bois_in_order(State), <<>>, FALSE, None)
    /\ UNCHANGED <<battle_over, winner>>

\* battle.run_turn() is called: the check of battle_over, the first snapshot
BattleRunTurn ==
    /\ mode = "battle" /\ pc = "idle"
    /\ IF battle_over THEN Fail("RuntimeError")
       ELSE Move(State, "turn_start", all_bois_in_order(State), <<>>, FALSE, None)
    /\ UNCHANGED <<battle_over, winner>>

\* run_turn, turn start events
BattleTurnStart ==
    /\ mode = "battle" /\ pc = "turn_start" /\ ~draining
    /\ IF iter = <<>> THEN EnterDeaths("deaths1") ELSE EmitToHead("battle_turn_start")
    /\ UNCHANGED <<battle_over, winner>>

\* BattleSystem._process_deaths: the scan goes to the next dead Boi of the
\* snapshot and emits its death; when the snapshot is exhausted the Bois found
\* are removed and, unless none was found, another pass begins
BattleProcessDeaths ==
    /\ mode = "battle" /\ pc \in {"deaths1", "deaths2", "deaths3"} /\ ~draining
    /\ LET dead == {i \in DOMAIN iter : is_dead(State, iter[i])}
       IN IF dead # {}
          THEN LET i == CHOOSE j \in dead : \A k \in dead : j <= k
                   b == iter[i]
               IN IF bois[b].team = Unset THEN Fail("AttributeError")
                  ELSE Emit(TargetEvent("death", bois[b].team, bois[b].team_pos, 0),
                            pc, SubSeq(iter, i + 1, Len(iter)), Append(to_remove, b),
                            TRUE, None)
          ELSE LET S == RemoveAll(State, to_remove)
               IN IF any_deaths
                  THEN Move(S, pc, all_bois_in_order(S), <<>>, FALSE, None)
                  ELSE Move(S, CASE pc = "deaths1" -> "fronts"
                                 [] pc = "deaths2" -> "turn_end_begin"
                                 [] OTHER -> "check",
                            <<>>, <<>>, FALSE, None)
    /\ UNCHANGED <<battle_over, winner>>

\* run_turn: attackers = sorted([self._first_boi(0), self._first_boi(1)])
BattleFronts ==
    /\ mode = "battle" /\ pc = "fronts"
    /\ IF ~valid_first_boi(State, 0) \/ ~valid_first_boi(State, 1) THEN Fail("ValueError")
       ELSE Move(State, "attack",
                 SortSeq(<<first_boi(State, 0), first_boi(State, 1)>>,
                         LAMBDA x, y : BoiLess(State, x, y)),
                 <<>>, FALSE, None)
    /\ UNCHANGED <<battle_over, winner>>

\* run_turn, the attack loop: other_boi is looked up and attack is emitted
BattleAttack ==
    /\ mode = "battle" /\ pc = "attack" /\ ~draining
    /\ IF iter = <<>> THEN EnterDeaths("deaths2")
       ELSE LET b == Head(iter)
            IN IF bois[b].team = Unset THEN Fail("AttributeError")
               ELSE IF ~valid_first_boi(State, other_team_number(bois[b].team))
                    THEN Fail("ValueError")
                    ELSE Emit(TargetEvent("attack", bois[b].team, bois[b].team_pos, 0),
                              "attacked", iter, <<>>, FALSE,
                              first_boi(State, other_team_number(bois[b].team)))
    /\ UNCHANGED <<battle_over, winner>>

\* run_turn, the attack loop: attacked is emitted to the front of the other team
BattleAttacked ==
    /\ mode = "battle" /\ pc = "attacked" /\ ~draining
    /\ Emit(TargetEvent("attacked", other_team_number(bois[Head(iter)].team), 0, 0),
            "damage", iter, <<>>, FALSE, other_boi)
    /\ UNCHANGED <<battle_over, winner>>

\* run_turn, the attack loop: damage is emitted to other_boi
BattleDamage ==
    /\ mode = "battle" /\ pc = "damage" /\ ~draining
    /\ IF bois[other_boi].team = Unset THEN Fail("AttributeError")
       ELSE Emit(TargetEvent("damage", bois[other_boi].team, bois[other_boi].team_pos,
                             bois[Head(iter)].attack),
                 "attack", Tail(iter), <<>>, FALSE, None)
    /\ UNCHANGED <<battle_over, winner>>

\* run_turn, turn end events
BattleTurnEnd ==
    /\ mode = "battle" /\ ~draining
    /\ \/ /\ pc = "turn_end_begin"
          /\ Move(State, "turn_end", all_bois_in_order(State), <<>>, FALSE, None)
       \/ /\ pc = "turn_end"
          /\ IF iter = <<>> THEN EnterDeaths("deaths3") ELSE EmitToHead("battle_turn_end")
    /\ UNCHANGED <<battle_over, winner>>

\* run_turn, the battle-over check, after which run_turn returns
BattleCheck ==
    /\ mode = "battle" /\ pc = "check"
    /\ battle_over' = battle_over_check(State, battle_over, winner)[1]
    /\ winner' = battle_over_check(State, battle_over, winner)[2]
    /\ Move(State, "returned", <<>>, <<>>, FALSE, None)

BattleNext ==
    \/ BattleProcessNext \/ BattleStart \/ BattleRunTurn \/ BattleTurnStart
    \/ BattleProcessDeaths \/ BattleFronts \/ BattleAttack \/ BattleAttacked
    \/ BattleDamage \/ BattleTurnEnd \/ BattleCheck

----------------------------------------------------------------------------
(* Boi.trigger and Effect.trigger, one call on its own *)

\* The event types and the callbacks of the calls that are made
EventTypes == {"damage", "death"}
CallbackLists ==
    {<<>>, <<"first">>, <<"first", "second">>, <<"second", "first">>, <<"second", "second">>}

\* The calls: Boi.triggers, whether an Effect is attached, Effect.triggers and
\* the type of the event. The triggers give, for an event type, the callbacks
\* in the order add_trigger appended them (<<>>: the type is no key)
TriggerCalls ==
    [triggers : [EventTypes -> CallbackLists], has_effect : BOOLEAN,
     effect_triggers : [EventTypes -> CallbackLists], event_type : EventTypes]

\* every callback the Boi holds, whatever its event type
AnyTypeCallbacks(call) == call.triggers["damage"] \o call.triggers["death"]

\* Boi.trigger: self.triggers[event.type], nothing if event.type is no key
OwnCallbacks(call) == call.triggers[call.event_type]

\* Effect.trigger: self.triggers[event.type], nothing if event.type is no key
EffectCallbacks(call) == call.effect_triggers[call.event_type]

\* boi.trigger(event, system) is called
TriggerInit ==
    \E call \in TriggerCalls :
        /\ call.has_effect \/ call.effect_triggers = [t \in EventTypes |-> <<>>]
        /\ mode = "trigger" /\ caller = {} /\ roster = call
        /\ bois = [b \in BoiIds |-> Blank] /\ items = [i \in ItemIds |-> ""]
        /\ teams = << <<>> >> /\ money = 0
        /\ shop_bois = <<>> /\ shop_items = <<>>
        /\ frozen_bois = <<>> /\ frozen_items = <<>>
        /\ event_queue = <<>> /\ pc = "own" /\ draining = FALSE
        /\ err = "none" /\ notified = NoEvent
        /\ battle_over = FALSE /\ winner = NoTeam
        /\ iter = OwnCallbacks(call) /\ to_remove = <<>>
        /\ any_deaths = FALSE /\ other_boi = None /\ invoked = <<>>

\* Boi.trigger: the loop over the Boi's own callbacks, then `if self.effect`
TriggerOwn ==
    /\ mode = "trigger" /\ pc = "own"
    /\ IF iter # <<>>
       THEN /\ invoked' = Append(invoked, <<"boi", Head(iter)>>)
            /\ iter' = Tail(iter) /\ pc' = pc
       ELSE /\ invoked' = invoked
            /\ IF roster.has_effect
               THEN iter' = EffectCallbacks(roster) /\ pc' = "effect"
               ELSE iter' = <<>> /\ pc' = "returned"

\* Effect.trigger: the loop over the Effect's callbacks
TriggerEffect ==
    /\ mode = "trigger" /\ pc = "effect"
    /\ IF iter # <<>>
       THEN /\ invoked' = Append(invoked, <<"effect", Head(iter)>>)
            /\ iter' = Tail(iter) /\ pc' = pc
       ELSE /\ invoked' = invoked /\ iter' = <<>> /\ pc' = "returned"

TriggerNext ==
    /\ TriggerOwn \/ TriggerEffect
    /\ UNCHANGED <<mode, caller, roster, bois, items, teams, shopVars, event_queue,
                   draining, err, notified, battle_over, winner, to_remove, any_deaths,
                   other_boi>>

----------------------------------------------------------------------------
(* TeamSystem.replace_boi called on the teams of a battle: iter holds the
   arguments <<boi, with_boi>> of the last call *)

\* The teams are those a BattleSystem was given; no call has been made yet
TeamInit ==
    \E r \in BattleSetups :
        LET S == BattleConstructed(r)
        IN /\ mode = "team" /\ caller = {"replace_boi"} /\ roster = r
           /\ bois = S.bois /\ items = S.items /\ teams = S.teams /\ money = S.money
           /\ shop_bois = <<>> /\ shop_items = <<>>
           /\ frozen_bois = <<>> /\ frozen_items = <<>>
           /\ event_queue = <<>> /\ pc = "idle" /\ draining = FALSE
           /\ err = "none" /\ notified = NoEvent
           /\ battle_over = FALSE /\ winner = NoTeam
           /\ iter = <<>> /\ to_remove = <<>>
           /\ any_deaths = FALSE /\ other_boi = None /\ invoked = <<>>

\* system.replace_boi(boi, with_boi): boi is a member of a team or a Boi that is
\* on none, with_boi is a newly built Boi
TeamReplaceBoi ==
    /\ mode = "team" /\ pc = "idle"
    /\ LET S0 == [State EXCEPT !.held = {}]
           fresh == Smallest(BoiIds \ LiveBois(S0), 2)
       IN /\ Len(fresh) = 2
          /\ \E boi \in Range(Flatten(teams)) \cup {fresh[2]} :
               LET S1 == [S0 EXCEPT !.bois[fresh[1]] = ZombieCricket,
                                    !.bois[fresh[2]] = IF boi = fresh[2] THEN BuildBoi("Ant")
                                                       ELSE @]
               IN /\ Commit(replace_boi(S1, boi, fresh[1]), {boi, fresh[1]})
                  /\ iter' = <<boi, fresh[1]>>
    /\ pc' = "returned"
    /\ UNCHANGED <<mode, caller, roster, draining, notified, battle_over, winner,
                   to_remove, any_deaths, other_boi, invoked>>

----------------------------------------------------------------------------
(* ShopSystem(team, pack, tier, money, ...) is called: roster holds the call.
   pack.num_tiers is the pack's tier count and each of the four fields of the
   pack names the tiers for which the pack has that entry; a tier the pack
   has carries the builders and quotas of PackTiers[1]. *)

\* The constructor is about to run on an empty team
ShopNewInit ==
    \E call \in [num_tiers : 0..MaxTiers, tier : 0 - 1 .. MaxTiers + 1,
                 tier_boi_builders : SUBSET (1..MaxTiers), tier_items : SUBSET (1..MaxTiers),
                 tier_shop_num_bois : SUBSET (1..MaxTiers),
                 tier_shop_num_items : SUBSET (1..MaxTiers)] :
        LET S == ShopConstructed(<<>>, 0)
        IN /\ mode = "new" /\ caller = {} /\ roster = call
           /\ bois = S.bois /\ items = S.items /\ teams = S.teams /\ money = S.money
           /\ shop_bois = <<>> /\ shop_items = <<>>
           /\ frozen_bois = <<>> /\ frozen_items = <<>>
           /\ event_queue = <<>> /\ pc = "new" /\ draining = FALSE
           /\ err = "none" /\ notified = NoEvent
           /\ battle_over = FALSE /\ winner = NoTeam
           /\ iter = <<>> /\ to_remove = <<>>
           /\ any_deaths = FALSE /\ other_boi = None /\ invoked = <<>>

\* ShopSystem.__init__: the check of tier against pack.num_tiers, then
\* _free_roll, which looks up the builders of the tiers 1..tier and the quotas
\* of tier; invoked records that _free_roll was entered. The lookup of an entry
\* the pack does not have raises (LookupError) inside _free_roll.
ShopNew ==
    /\ mode = "new" /\ pc = "new"
    /\ LET call == roster
           missing == \/ \E t \in 1..call.tier : t \notin call.tier_boi_builders
                      \/ \E t \in 1..call.tier : t \notin call.tier_items
                      \/ call.tier \notin call.tier_shop_num_bois
                      \/ call.tier \notin call.tier_shop_num_items
       IN IF call.tier < 1 \/ call.tier > call.num_tiers
          THEN /\ Commit(Raise(State, "ValueError"), {})
               /\ invoked' = invoked
               /\ pc' = "unbuilt"
          ELSE /\ invoked' = Append(invoked, <<"shop", "_free_roll">>)
               /\ IF missing
                  THEN Commit(Raise(State, "LookupError"), {}) /\ pc' = "unbuilt"
                  ELSE /\ \E rnd \in RollChoices : Commit(free_roll(State, rnd), {})
                       /\ pc' = "returned"
    /\ UNCHANGED <<mode, caller, roster, notified, battleVars>>

ShopNext == ShopSendEvent \/ ShopProcessAllQueueEvents \/ ShopProcessNext

Init == ShopInit \/ BattleInit \/ TriggerInit \/ TeamInit \/ ShopNewInit
Next == ShopNext \/ BattleNext \/ TriggerNext \/ TeamReplaceBoi \/ ShopNew \/ Return
Spec == Init /\ [][Next]_vars

\* A shop alone, a battle alone
ShopSpec == ShopInit /\ [][ShopNext \/ Return]_vars
BattleSpec == BattleInit /\ [][BattleNext \/ Return]_vars
TriggerSpec == TriggerInit /\ [][TriggerNext \/ Return]_vars
\* A battle that never stops for good: the single thread runs each call to its
\* end and the caller goes on calling (some step of BattleNext or Return is
\* possible in every state but that of a failed constructor, so this is what
\* weak fairness of the next-state action asks)
BattleFairSpec == BattleSpec /\ []<><<TRUE>>_vars
TeamSpec == TeamInit /\ [][TeamReplaceBoi \/ Return]_vars
ShopNewSpec == ShopNewInit /\ [][ShopNew \/ Return]_vars

----------------------------------------------------------------------------
(* The claims *)

IsPrefix(s, t) == Len(s) <= Len(t) /\ SubSeq(t, 1, Len(s)) = s

\* A public operation has returned (or raised) and none is running
AtRest == pc \in {"idle", "returned"}

\* C1: whenever a public operation of a shop or a battle has returned, no team
\* holds more than MAX_TEAM_SIZE bois.
C1_Capacity == AtRest => \A t \in DOMAIN teams : Len(teams[t]) <= MAX_TEAM_SIZE

\* C2: whenever a death-resolution pass of a battle has run to completion, after
\* each of the three phases of run_turn, no boi with health <= 0 is a member of
\* either team.
C2_NoDeadMember ==
    (mode = "battle" /\ pc \in {"fronts", "turn_end_begin", "check"})
        => \A t \in DOMAIN teams : \A i \in DOMAIN teams[t] : bois[teams[t][i]].health > 0

\* a pass that emitted a death has completed
C2_Witness == mode = "battle" /\ pc = "fronts" /\ notified.type = "death"

\* C3: events are processed in FIFO order: every step either leaves the queue
\* alone, or only appends to its tail, or processes its head and leaves the
\* events that were queued behind the head, in their order, in front of whatever
\* the handler sent.
C3_Fifo ==
    [][\/ IsPrefix(event_queue, event_queue')
       \/ /\ event_queue # <<>>
          /\ notified' = Head(event_queue)
          /\ IsPrefix(Tail(event_queue), event_queue')]_vars

\* the handler of a death has sent a damage event behind the killed event that
\* was already queued
C3_Witness ==
    /\ notified.type = "death"
    /\ Len(event_queue) = 2
    /\ event_queue[1].type = "killed"
    /\ event_queue[2].type = "damage"

\* C4: a shop transaction whose validation fails raises an error and leaves
\* money, the team, the offers and the frozen lists, and every boi and item on
\* them, as they were.
C4_ValidateFirst ==
    [][(mode = "shop" /\ err' = "ValueError")
         => /\ UNCHANGED <<money, teams, shop_bois, shop_items, frozen_bois, frozen_items>>
            /\ \A b \in Range(teams[1]) \cup Range(shop_bois) \cup Range(frozen_bois) :
                 bois'[b] = bois[b]
            /\ \A i \in Range(shop_items) \cup Range(frozen_items) :
                 items'[i] = items[i]]_vars

\* a buy_boi transaction has failed its validation
C4_Witness ==
    mode = "shop" /\ err = "ValueError" /\ notified.type = "buy_boi" /\ pc = "returned"

\* C5: with the queue of a shop drained, every boi has a level in 1..3, an
\* experience below LEVEL_UP_EXPERIENCE, and experience 0 at level 3.
C5_LevelBounds ==
    (mode = "shop" /\ AtRest /\ event_queue = <<>>)
        => \A i \in DOMAIN teams[1] :
             LET b == bois[teams[1][i]]
             IN /\ b.level \in 1..MAX_BOI_LEVEL
                /\ b.experience \in 0..(LEVEL_UP_EXPERIENCE - 1)
                /\ (b.level = MAX_BOI_LEVEL => b.experience = 0)

\* C6: the battle-over check of run_turn sets the outcome from the emptiness of
\* the teams: both empty gives Over without a winner, only team 0 empty gives
\* winner 1, only team 1 empty gives winner 0, and the battle goes on otherwise.
C6_Outcome ==
    [][(mode = "battle" /\ pc = "check" /\ pc' # "check")
         => LET e0 == teams[1] = <<>>
                e1 == teams[2] = <<>>
            IN /\ (e0 /\ e1) => (battle_over' /\ winner' = NoTeam)
               /\ (e0 /\ ~e1) => (battle_over' /\ winner' = 1)
               /\ (~e0 /\ e1) => (battle_over' /\ winner' = 0)
               /\ (~e0 /\ ~e1) => ~battle_over']_vars

\* C7: a merge that succeeds takes exactly the source off the team and leaves
\* the target a member, for every pair the validation of merge accepts.
C7_MergeConsumesSource ==
    [][(mode = "shop" /\ event_queue # <<>> /\ Head(event_queue).type = "merge_boi"
          /\ notified' = Head(event_queue) /\ err' = "none")
         => /\ Len(teams'[1]) = Len(teams[1]) - 1
            /\ Contains(teams'[1], notified'.boi)
            /\ teams'[1] = ListRemove(teams[1], notified'.boi2)]_vars

\* C8: every boi and item that is frozen when a roll begins is among the offers
\* after the roll, unchanged, and the offers of before the roll that were not
\* frozen are gone.
C8_FrozenSurvive ==
    [][(mode = "shop" /\ event_queue # <<>> /\ Head(event_queue).type = "roll"
          /\ notified' = Head(event_queue) /\ err' = "none")
         => /\ \A b \in Range(frozen_bois) : Contains(shop_bois', b) /\ bois'[b] = bois[b]
            /\ \A i \in Range(frozen_items) :
                 Contains(shop_items', i) /\ items'[i] = items[i]
            /\ \A b \in Range(shop_bois) \ Range(frozen_bois) : ~Contains(shop_bois', b)
            /\ \A i \in Range(shop_items) \ Range(frozen_items) :
                 ~Contains(shop_items', i)]_vars

\* a paid roll has run with a frozen boi and a frozen item, and has built new offers
C8_Witness ==
    /\ mode = "shop" /\ notified.type = "roll" /\ err = "none" /\ pc = "returned"
    /\ frozen_bois # <<>> /\ frozen_items # <<>>
    /\ Len(shop_bois) > Len(frozen_bois) /\ Len(shop_items) > Len(frozen_items)

C10_OverIsFinal ==
    [][/\ (mode = "battle" /\ pc = "idle" /\ battle_over)
            => /\ err' = "RuntimeError"
               /\ UNCHANGED <<teams, bois, battle_over, winner, event_queue, notified>>
       /\ battle_over => (battle_over' /\ winner' = winner)]_vars

\* run_turn has raised on a battle that is over
C10_Witness == mode = "battle" /\ battle_over /\ err = "RuntimeError" /\ pc = "returned"


\* C11: in the battle of a lone boi of attack 2 and health 1 against a lone boi
\* of attack 1 and health 2, both with the standard triggers only, once
\* run_turn has returned both teams are empty and the battle is over, a draw:
\* both fronts dealt their damage, although the first hit was already lethal.
C11_Trade ==
    (mode = "battle" /\ roster = BattleTrade /\ pc = "returned"
     /\ notified.type # "battle_start")
    => /\ teams = << <<>>, <<>> >>
       /\ battle_over /\ winner = NoTeam

\* The running loop processes the event at the head of the queue in this step
Processing(type) ==
    /\ mode = "shop" /\ event_queue # <<>>
    /\ Head(event_queue).type = type
    /\ notified' = Head(event_queue)

\* C12: buying a boi that is not offered, or with less money than boi_price, or
\* for a team that already has MAX_TEAM_SIZE members fails with the validation
\* error; money, team and offers are unchanged and no purchased event is sent.
C12_BuyBoiRejected ==
    [][(/\ Processing("buy_boi")
        /\ \/ ~Contains(shop_bois, Head(event_queue).boi)
           \/ money < BOI_PRICE
           \/ Len(teams[1]) >= MAX_TEAM_SIZE)
       => /\ err' = "ValueError"
          /\ money' = money /\ teams' = teams
          /\ shop_bois' = shop_bois /\ shop_items' = shop_items
          /\ event_queue' = Tail(event_queue)]_vars

\* a buy of an offered boi for a team with room was rejected with no money,
\* a buy for a full team was rejected before, and so was a boi not on offer
C12_Witness ==
    /\ mode = "shop" /\ notified.type = "buy_boi" /\ err = "ValueError"
    /\ money = 0 /\ BOI_PRICE = 3
    /\ Contains(shop_bois, notified.boi)
    /\ Len(teams[1]) < MAX_TEAM_SIZE

\* C13: a successful merge of a source into another boi sets the target's
\* attack to min(MAX_ATTACK, max(target.attack, source.attack) + 1) and its
\* health likewise, and adds source.experience + (source.level - 1) *
\* LEVEL_UP_EXPERIENCE + 1 to its experience before the level-ups (each level-up
\* takes the threshold off again, reaching the top level resets it to 0).
\* Two fresh 2/2 bois of level 1 give 3/3, experience 1, level 1, no levelup
\* event, and the source is off the team.
C13_MergeResult ==
    [][(/\ Processing("merge_boi") /\ err' = "none"
        /\ Head(event_queue).boi # Head(event_queue).boi2)
       => LET t == Head(event_queue).boi
              tgt == bois[t]
              src == bois[Head(event_queue).boi2]
              top(a, b) == IF a >= b THEN a ELSE b
              cap(m, x) == IF x <= m THEN x ELSE m
              total == tgt.experience + src.experience
                       + (src.level - 1) * LEVEL_UP_EXPERIENCE + 1
              ups == bois'[t].level - tgt.level
              fresh(b) == b.attack = 2 /\ b.health = 2 /\ b.level = 1 /\ b.experience = 0
          IN /\ bois'[t].attack = cap(MAX_ATTACK, top(tgt.attack, src.attack) + 1)
             /\ bois'[t].health = cap(MAX_HEALTH, top(tgt.health, src.health) + 1)
             /\ ups >= 0
             /\ bois'[t].experience =
                  IF bois'[t].level = MAX_BOI_LEVEL THEN 0
                  ELSE total - ups * LEVEL_UP_EXPERIENCE
             /\ (fresh(tgt) /\ fresh(src))
                => /\ bois'[t] = [tgt EXCEPT !.attack = 3, !.health = 3, !.experience = 1]
                   /\ event_queue' = Tail(event_queue)
                   /\ ~Contains(teams'[1], Head(event_queue).boi2)]_vars

\* two fresh 2/2 bois were merged, and a boi at the attack cap was merged
\* into another before
C13_Witness ==
    /\ mode = "shop" /\ notified.type = "merge_boi" /\ err = "none"
    /\ notified.boi # notified.boi2
    /\ bois[notified.boi].type_name = "Beaver"
    /\ bois[notified.boi].attack = 3 /\ bois[notified.boi].health = 3
    /\ bois[notified.boi].experience = 1 /\ bois[notified.boi].level = 1
    /\ \E b \in Range(teams[1]) : bois[b].attack = MAX_ATTACK /\ bois[b].level > 2

\* C14: a merge whose added experience crosses the level-up threshold exactly
\* once sends exactly one levelup event, for the target, and once that event
\* has been drained the target's level is one above its level before the merge:
\* the merge raises the level by one, the drained levelup leaves it there.
C14_OneLevelUp ==
    [][/\ (/\ Processing("merge_boi") /\ err' = "none"
           /\ Head(event_queue).boi # Head(event_queue).boi2
           /\ LET tgt == bois[Head(event_queue).boi]
                  src == bois[Head(event_queue).boi2]
                  total == tgt.experience + src.experience
                           + (src.level - 1) * LEVEL_UP_EXPERIENCE + 1
              IN /\ tgt.level < MAX_BOI_LEVEL
                 /\ total >= LEVEL_UP_EXPERIENCE
                 /\ \/ tgt.level = MAX_BOI_LEVEL - 1
                    \/ total < 2 * LEVEL_UP_EXPERIENCE)
          => /\ event_queue' = Append(Tail(event_queue),
                                      SendTarget("levelup", Head(event_queue).boi))
             /\ bois'[Head(event_queue).boi].level = bois[Head(event_queue).boi].level + 1
       /\ (/\ Processing("levelup")
           /\ pc = "drain" /\ notified.type = "merge_boi"
           /\ notified.boi # notified.boi2
           /\ event_queue = <<SendTarget("levelup", notified.boi)>>)
          => bois'[notified.boi].level = bois[notified.boi].level]_vars

\* C15: a successful buy of a boi takes exactly boi_price off the money, takes
\* the boi off the offers, appends it at the tail of the team (the members
\* keep their positions) and sends exactly one purchased event whose target
\* is the boi; that event is handed to the observers and changes nothing.
C15_BuyBoi ==
    [][/\ (Processing("buy_boi") /\ err' = "none")
          => LET b == Head(event_queue).boi
             IN /\ money' = money - BOI_PRICE
                /\ shop_bois' = SelectSeq(shop_bois, LAMBDA x : x # b)
                /\ Len(shop_bois') = Len(shop_bois) - 1
                /\ teams' = <<Append(teams[1], b)>>
                /\ event_queue' = Append(Tail(event_queue),
                                         [Event("purchased") EXCEPT !.target = b])
       /\ Processing("purchased")
          => /\ err' = "none" /\ event_queue' = Tail(event_queue)
             /\ money' = money /\ teams' = teams /\ shop_bois' = shop_bois]_vars

\* the purchased event of a boi bought onto a team that had members was
\* handed to the observers
C15_Witness ==
    /\ mode = "shop" /\ notified.type = "purchased" /\ err = "none"
    /\ Len(teams[1]) >= 2
    /\ teams[1][Len(teams[1])] = notified.target
    /\ ~Contains(shop_bois, notified.target)

\* C16: selling a boi that is not on the team fails with the validation error
\* and changes nothing; a successful sale adds the boi's level at that time to
\* the money, leaves the boi off the team and sends exactly one sold event
\* whose target is the boi, which is handed to the observers.
C16_SellBoi ==
    [][/\ (Processing("sell_boi") /\ ~Contains(teams[1], Head(event_queue).boi))
          => /\ err' = "ValueError"
             /\ money' = money /\ teams' = teams
             /\ event_queue' = Tail(event_queue)
       /\ (Processing("sell_boi") /\ err' = "none")
          => LET b == Head(event_queue).boi
             IN /\ money' = money + bois[b].level
                /\ ~Contains(teams'[1], b)
                /\ event_queue' = Append(Tail(event_queue),
                                         [Event("sold") EXCEPT !.target = b])
       /\ Processing("sold")
          => /\ err' = "none" /\ event_queue' = Tail(event_queue)
             /\ money' = money /\ teams' = teams]_vars

C18_BuyAndMerge ==
    [][Processing("buy_and_merge_boi")
       => LET b == Head(event_queue).boi
              t == Head(event_queue).target
              top(x, y) == IF x >= y THEN x ELSE y
              cap(m, x) == IF x <= m THEN x ELSE m
          IN IF \/ ~Contains(shop_bois, b) \/ ~Contains(teams[1], t)
                \/ bois[b].type_name # bois[t].type_name
                \/ money < BOI_PRICE
             THEN /\ err' = "ValueError"
                  /\ money' = money /\ teams' = teams /\ shop_bois' = shop_bois
                  /\ bois'[t] = bois[t] /\ bois'[b] = bois[b]
                  /\ event_queue' = Tail(event_queue)
             ELSE /\ err' = "none"
                  /\ money' = money - BOI_PRICE
                  /\ ~Contains(shop_bois', b)
                  /\ ~Contains(teams'[1], b)
                  /\ Len(teams'[1]) = Len(teams[1])
                  /\ Len(teams'[1]) <= MAX_TEAM_SIZE
                  /\ bois'[t].attack = cap(MAX_ATTACK, top(bois[t].attack, bois[b].attack) + 1)
                  /\ bois'[t].health = cap(MAX_HEALTH, top(bois[t].health, bois[b].health) + 1)]_vars

\* C19: a swap fails with the validation error, changing nothing, unless the
\* two bois are distinct members of the team; a successful swap exchanges the
\* indices of the two, every other member keeps its index, the length and the
\* membership of the team are unchanged, and so are money, offers and frozen
\* lists.
C19_Swap ==
    [][Processing("swap_boi")
       => LET b == Head(event_queue).boi
              c == Head(event_queue).boi2
              team == teams[1]
              at(x) == CHOOSE i \in DOMAIN team : team[i] = x /\ \A k \in 1..(i - 1) : team[k] # x
          IN /\ shopVars' = shopVars
             /\ event_queue' = Tail(event_queue)
             /\ IF b \in Range(team) /\ c \in Range(team) /\ b # c
                THEN /\ err' = "none"
                     /\ Len(teams'[1]) = Len(team)
                     /\ teams'[1][at(b)] = c /\ teams'[1][at(c)] = b
                     /\ \A k \in DOMAIN team \ {at(b), at(c)} : teams'[1][k] = team[k]
                     /\ Range(teams'[1]) = Range(team)
                ELSE err' = "ValueError" /\ teams' = teams]_vars

\* two members of a team of more than two were swapped
C19_Witness ==
    /\ mode = "shop" /\ notified.type = "swap_boi" /\ err = "none"
    /\ Len(teams[1]) > 2
    /\ \E i, j \in DOMAIN teams[1] :
          i < j /\ teams[1][i] = notified.boi /\ teams[1][j] = notified.boi2

\* C20: a paid roll with less money than roll_price fails with the validation
\* error and changes neither money, offers, frozen lists nor team; otherwise
\* it takes exactly roll_price off the money and regenerates the offers by a
\* free roll (the frozen assets, then newly built ones), leaving the team and
\* the frozen lists as they are.
C20_Roll ==
    [][Processing("roll")
       => /\ teams' = teams
          /\ frozen_bois' = frozen_bois /\ frozen_items' = frozen_items
          /\ event_queue' = Tail(event_queue)
          /\ IF money < ROLL_PRICE
             THEN /\ err' = "ValueError" /\ money' = money
                  /\ shop_bois' = shop_bois /\ shop_items' = shop_items
             ELSE /\ err' = "none" /\ money' = money - ROLL_PRICE
                  /\ IsPrefix(frozen_bois, shop_bois')
                  /\ IsPrefix(frozen_items, shop_items')
                  /\ \A k \in (Len(frozen_bois) + 1)..Len(shop_bois') :
                        LET b == shop_bois'[k]
                        IN /\ b \notin Range(shop_bois) \cup Range(teams[1])
                           /\ \E name \in Range(UnlockedBois) : bois'[b] = BuildBoi(name)
                  /\ \A k \in (Len(frozen_items) + 1)..Len(shop_items') :
                        /\ shop_items'[k] \notin Range(shop_items)
                        /\ items'[shop_items'[k]] \in Range(UnlockedItems)]_vars

\* a paid roll went through with a boi frozen: the frozen boi is offered again
\* next to a new one
C20_Witness ==
    /\ mode = "shop" /\ notified.type = "roll" /\ err = "none"
    /\ frozen_bois # <<>> /\ Len(shop_bois) > Len(frozen_bois)
    /\ money = 0

\* The offers hold the frozen assets first and fill the tier's quotas
QuotasFilled ==
    /\ IsPrefix(frozen_bois, shop_bois) /\ IsPrefix(frozen_items, shop_items)
    /\ (Len(frozen_bois) <= PackTiers[tier].shop_num_bois /\ UnlockedBois # <<>>)
       => Len(shop_bois) = PackTiers[tier].shop_num_bois
    /\ (Len(frozen_items) <= PackTiers[tier].shop_num_items /\ UnlockedItems # <<>>)
       => Len(shop_items) = PackTiers[tier].shop_num_items
    /\ \A k \in (Len(frozen_bois) + 1)..Len(shop_bois) :
          bois[shop_bois[k]].type_name \in Range(UnlockedBois)

\* C21: after every free roll, the one of the constructor and the one of a
\* paid roll, the offers are the frozen assets plus newly sampled ones that
\* fill only the remaining slots: as many bois and items are offered as the
\* tier's quotas say (when no more than that are frozen), and every new boi
\* comes from a builder of a tier in 1..tier.
C21_RollFillsQuota ==
    /\ (mode = "shop" => QuotasFilled)
    /\ [][(Processing("roll") /\ err' = "none") => QuotasFilled']_vars

\* What a toggle of asset x makes of the frozen list and of the offers
Toggled(x, frozen, offers, frozen_after, raised) ==
    IF x \notin Range(offers) \cup Range(frozen)
    THEN raised = "ValueError" /\ frozen_after = frozen
    ELSE /\ raised = "none"
         /\ frozen_after = IF x \in Range(frozen)
                           THEN SelectSeq(frozen, LAMBDA y : y # x)
                           ELSE Append(frozen, x)
         /\ Range(frozen_after) = (Range(frozen) \ {x}) \cup ({x} \ Range(frozen))

C23_StatsInRange ==
    (\/ mode = "battle" /\ pc \in {"fronts", "turn_end_begin", "check"}
     \/ mode = "shop" /\ pc = "returned")
    => \A k \in DOMAIN teams : \A b \in Range(teams[k]) :
          /\ 0 <= bois[b].health /\ bois[b].health <= MAX_HEALTH
          /\ 0 <= bois[b].attack /\ bois[b].attack <= MAX_ATTACK

\* C24: when a call of trigger(event, system) on a boi has returned, the
\* callbacks called are the boi's own callbacks for event.type, each once and
\* in insertion order, and after all of them the callbacks of the attached
\* Effect for event.type, in insertion order; no callback held for another
\* type is called, and a boi with no callback of its own for the type still
\* has its Effect's called.
C24_TriggerOrder ==
    (mode = "trigger" /\ pc = "returned")
    => LET own == roster.triggers[roster.event_type]
           eff == IF roster.has_effect THEN roster.effect_triggers[roster.event_type]
                  ELSE <<>>
       IN invoked = [k \in 1..(Len(own) + Len(eff)) |->
                       IF k <= Len(own) THEN <<"boi", own[k]>>
                       ELSE <<"effect", eff[k - Len(own)]>>]

\* a boi with no callback of its own for the event's type, but with callbacks
\* for the other type, had the two callbacks of its Effect called
C24_Witness ==
    /\ mode = "trigger" /\ pc = "returned"
    /\ roster.triggers[roster.event_type] = <<>>
    /\ \E t \in EventTypes : roster.triggers[t] # <<>>
    /\ Len(invoked) = 2

DeathDrained ==
    /\ event_queue # <<>> /\ Head(event_queue).type = "death"
    /\ notified' = Head(event_queue)
    /\ mode = "shop" \/ (mode = "battle" /\ draining)

\* C26: the removal made for a death event deletes the boi from the team that
\* holds it, and when the boi is on no team (a second death event for a boi
\* already removed) it fails with an error and leaves every team unchanged.
C26_Remove ==
    [][DeathDrained
       => LET b == Head(event_queue).target
          IN IF \E k \in DOMAIN teams : Contains(teams[k], b)
             THEN err' = "none" => \A k \in DOMAIN teams' : ~Contains(teams'[k], b)
             ELSE err' # "none" /\ teams' = teams]_vars

\* C27: replace_boi(boi, with_boi) puts with_boi at exactly the index boi had in
\* its team and takes boi off that team; the team keeps its length, every other
\* member keeps its index and the other team is unchanged. When boi is on no
\* team the call raises ValueError and changes no team.
C27_Replace ==
    [][(mode = "team" /\ pc = "idle" /\ pc' = "returned")
       => LET boi == iter'[1]
              with_boi == iter'[2]
          IN IF \E k \in DOMAIN teams : Contains(teams[k], boi)
             THEN /\ err' = "none"
                  /\ \A k \in DOMAIN teams :
                       /\ Len(teams'[k]) = Len(teams[k])
                       /\ \A i \in DOMAIN teams[k] :
                            teams'[k][i] = IF teams[k][i] = boi THEN with_boi
                                           ELSE teams[k][i]
                  /\ \A k \in DOMAIN teams' : ~Contains(teams'[k], boi)
             ELSE err' = "ValueError" /\ teams' = teams]_vars

\* a call has put the new Boi in the middle of a team of three, and the other
\* team is as it was
C27_Witness ==
    /\ mode = "team" /\ pc = "returned" /\ err = "none"
    /\ Len(teams[1]) = 3 /\ teams[1][2] = iter[2]
    /\ bois[iter[2]].type_name = "Zombie Cricket"
    /\ ~Contains(teams[1], iter[1])

C29_Validated ==
    [][(mode = "new" /\ pc = "new" /\ pc' # "new")
       => LET call == roster
              exposed == \A t \in 1..call.tier :
                            /\ t \in call.tier_boi_builders /\ t \in call.tier_items
                            /\ t \in call.tier_shop_num_bois
                            /\ t \in call.tier_shop_num_items
          IN IF call.tier >= 1 /\ call.tier <= call.num_tiers /\ exposed
             THEN err' = "none" /\ pc' = "returned"
             ELSE err' = "ValueError" /\ invoked' = <<>> /\ pc' = "unbuilt"]_vars

\* C30: whenever a run_turn() that was started on a battle that is not over
\* reaches its attack phase, both teams have a front Boi, so that the
\* ValueError of _first_boi is never raised.
C30_FrontsPresent ==
    /\ (mode = "battle" /\ pc = "fronts")
         => (~battle_over /\ Len(teams[1]) > 0 /\ Len(teams[2]) > 0)
    /\ mode = "battle" => err # "ValueError"

\* The positions of run_turn in their order, and the type of the events the
\* driver emits at each
PhaseRank(p) ==
    CASE p = "turn_start" -> 1 [] p = "deaths1" -> 2 [] p = "fronts" -> 3
      [] p \in {"attack", "attacked", "damage"} -> 4 [] p = "deaths2" -> 5
      [] p \in {"turn_end_begin", "turn_end"} -> 6 [] p = "deaths3" -> 7
      [] p = "check" -> 8 [] OTHER -> 0
PhaseEvent(p) ==
    CASE p = "turn_start" -> "battle_turn_start" [] p = "turn_end" -> "battle_turn_end"
      [] p \in {"deaths1", "deaths2", "deaths3"} -> "death"
      [] p \in {"attack", "attacked", "damage"} -> p [] OTHER -> ""
NoDead == \A k \in DOMAIN teams : \A i \in DOMAIN teams[k] : ~is_dead(State, teams[k][i])

\* C31: within one run_turn() the phases come in the order turn start, attack,
\* turn end, each followed by a death resolution: the driver never goes back
\* to an earlier phase nor skips one, it emits at each position only the events
\* of that phase, and when the attack phase begins, when the turn end phase
\* begins and when the battle-over check runs, the death resolution before it
\* is complete (no Boi with health <= 0 is on a team).
C31_Phases ==
    /\ []((mode = "battle" /\ pc \in {"fronts", "turn_end_begin", "check"}) => NoDead)
    /\ [][(mode = "battle" /\ PhaseRank(pc) > 0)
          => /\ pc' = "returned" \/ PhaseRank(pc') \in {PhaseRank(pc), PhaseRank(pc) + 1}
             /\ (pc' = "returned" /\ err' = "none") => pc = "check"
             /\ (~draining /\ notified' # notified) => notified'.type = PhaseEvent(pc)]_vars

\* the battle-over check of a turn that went through its three phases and in
\* whose turn end phase a Boi was killed
C31_Witness ==
    /\ mode = "battle" /\ pc = "check" /\ err = "none"
    /\ roster = BattleDraw
    /\ Len(teams[1]) + Len(teams[2]) < 2

OnATeam(b) == \E k \in DOMAIN teams : Contains(teams[k], b)

\* C32: in a pass of _process_deaths a death event is emitted for every Boi the
\* scan finds dead before any of them is removed: when the driver emits the
\* death event of one, those found dead before it in the same pass are still
\* on their team (unless their own death trigger replaced them); and the
\* triggers of a death event run while its subject is on a team.
C32_DeathPass ==
    [][(mode = "battle" /\ pc \in {"deaths1", "deaths2", "deaths3"})
       => /\ (~draining /\ Len(to_remove') > Len(to_remove))
               => \A i \in DOMAIN to_remove :
                    OnATeam(to_remove[i]) \/ bois[to_remove[i]].ability = "cricket_faint"
          /\ (draining /\ Head(event_queue).type = "death")
               => OnATeam(Head(event_queue).target)]_vars

InDeaths(p) == p \in {"deaths1", "deaths2", "deaths3"}

\* C33: death resolution terminates and is idempotent. Every Boi a pass found
\* dead is off the teams when the pass ends, so that a pass that finds a dead
\* Boi shrinks the teams unless a trigger adds one; the pass that completes a
\* resolution runs on teams without a dead Boi, emits no event and changes
\* neither team, as a resolution run again at once would; and a resolution that
\* has begun comes to its end.
C33_Resolution ==
    /\ [][(mode = "battle" /\ InDeaths(pc) /\ ~draining)
          => /\ (to_remove # <<>> /\ to_remove' = <<>> /\ err' = "none")
                  => \A i \in DOMAIN to_remove : \A k \in DOMAIN teams' :
                        ~Contains(teams'[k], to_remove[i])
             /\ (NoDead /\ to_remove = <<>> /\ ~any_deaths)
                  => (teams' = teams /\ bois' = bois /\ notified' = notified
                      /\ event_queue' = <<>> /\ ~InDeaths(pc'))
             /\ (~InDeaths(pc') /\ err' = "none")
                  => (NoDead /\ teams' = teams /\ notified' = notified)]_vars
    /\ (mode = "battle" /\ InDeaths(pc)) ~> ~InDeaths(pc)

\* a resolution has completed after a pass that removed Bois
C33_Witness ==
    /\ mode = "battle" /\ pc = "fronts" /\ roster = BattleHusks
    /\ Len(teams[1]) < 3 /\ NoDead

\* l lists every Boi that is on a team of t once, by initiative: higher
\* attack first, then higher health, then id
InInitiativeOrder(l, t, B) ==
    /\ Len(l) = Len(t[1]) + Len(t[2])
    /\ Range(l) = Range(t[1]) \cup Range(t[2])
    /\ \A i \in DOMAIN l : \A j \in DOMAIN l :
         i < j => BoiLess([bois |-> B], l[i], l[j])

\* C34: the battle_start, battle_turn_start and battle_turn_end events of a
\* phase go once to every Boi that is on a team when the phase starts, by
\* initiative: the list the phase visits is that of all members in initiative
\* order, and each visit delivers the phase's event to the Boi visited and to
\* no other.
C34_Initiative ==
    [][(mode = "battle" /\ ~draining)
       => /\ (pc' \in {"turn_start", "turn_end"} /\ pc' # pc)
               => InInitiativeOrder(iter', teams', bois')
          /\ (pc \in {"start", "turn_start", "turn_end"} /\ iter # <<>>)
               => /\ err' = "none"
                  /\ iter' = Tail(iter)
                  /\ event_queue' # <<>>
                  /\ Head(event_queue').target = Head(iter)
                  /\ Head(event_queue').type = notified'.type
                  /\ notified'.type = IF pc = "start" THEN "battle_start"
                                      ELSE PhaseEvent(pc)]_vars

\* C35: in a battle every Boi on a team has a stored team and position that
\* are the index of its team and the index it has in that team, whenever no
\* event is being processed (after every removal and every replace).
C35_StoredPosition ==
    (mode = "battle" /\ ~draining)
      => \A k \in DOMAIN teams : \A i \in DOMAIN teams[k] :
            /\ bois[teams[k][i]].team = k - 1
            /\ bois[teams[k][i]].team_pos = i - 1

\* C36: processing a damage event takes exactly the event's damage off the
\* target's health and raises nothing; if and only if the health left is <= 0,
\* a death event (target the damaged Boi, source the damage source) and then a
\* killed event (target the damage source) are added at the tail of the queue;
\* the damage event of the driver carries a source.
C36_Damage ==
    [][(mode = "battle" /\ draining /\ Head(event_queue).type = "damage")
       => LET e == Head(event_queue)
              b == e.target
              left == bois[b].health - e.damage
          IN /\ err' = "none"
             /\ e.source # NoKey
             /\ \A k \in DOMAIN teams : Contains(teams[k], b) => bois'[b].health = left
             /\ event_queue' =
                  IF left <= 0
                  THEN Tail(event_queue) \o <<SendTargetSource("death", b, e.source),
                                              SendTargetSource("killed", e.source, b)>>
                  ELSE Tail(event_queue)]_vars

\* C37: in a shop every frozen boi is offered and every frozen item is
\* offered: what is bought leaves the frozen list together with the offers.
C37_FrozenOffered ==
    mode = "shop"
      => /\ Range(frozen_bois) \subseteq Range(shop_bois)
         /\ Range(frozen_items) \subseteq Range(shop_items)

\* C38: in a shop no Boi is twice on the team and no Boi is on the team and
\* among the offers at the same time.
C38_NoDuplicate ==
    mode = "shop"
      => /\ \A i \in DOMAIN teams[1] : \A j \in DOMAIN teams[1] :
               teams[1][i] = teams[1][j] => i = j
         /\ Range(teams[1]) \cap Range(shop_bois) = {}

\* C39: a Boi dies at most once in a battle. The death resolution emits a
\* death event only for a Boi that is still on a team (not for one whose death
\* event was already processed), a death event is processed only while its
\* target is on a team (its processing takes the target off, so that no second
\* one follows), and the processing of a death event raises nothing.
C39_DiesOnce ==
    [][mode = "battle"
       => /\ (InDeaths(pc) /\ ~draining /\ Len(to_remove') > Len(to_remove))
               => OnATeam(to_remove'[Len(to_remove')])
          /\ (draining /\ Head(event_queue).type = "death")
               => (OnATeam(Head(event_queue).target) /\ err' = "none")]_vars

\* What a processed event of type t adds to the money when it succeeds
MoneyChange(e) ==
    CASE e.type = "roll" -> 0 - ROLL_PRICE
      [] e.type \in {"buy_boi", "buy_and_merge_boi"} -> 0 - BOI_PRICE
      [] e.type = "buy_item" -> 0 - ItemPrice(items[e.item])
      [] e.type = "sell_boi" -> bois[e.boi].level
      [] OTHER -> 0

\* C40: the money of a shop is never negative; every event that is processed
\* without an error changes the money by exactly its price (roll: -roll_price,
\* buy_boi and buy_and_merge_boi: -boi_price, buy_item: -item.price, sell_boi:
\* +level; merge, swap, freeze toggles and all other events: nothing).
C40_Money ==
    /\ [](mode = "shop" => money >= 0)
    /\ [][(mode = "shop" /\ event_queue # <<>> /\ notified' = Head(event_queue)
           /\ event_queue' # event_queue /\ err' = "none")
          => money' = money + MoneyChange(Head(event_queue))]_vars

\* the level 2 Beaver has been sold for 2
C40_Witness ==
    /\ mode = "shop" /\ err = "none" /\ notified.type = "sell_boi"
    /\ roster = <<SetupItems.team>>
    /\ money = SetupItems.money + 2

====
